---- MODULE Spec2Model ----
(***************************************************************************)
(* Model of firmware/ethereum.c: the streaming RLP-encode / Keccak-hash /  *)
(* sign state machine (ethereum_signing_init, ethereum_signing_txack,      *)
(* ethereum_signing_abort) and its RLP header helpers.                     *)
(*                                                                         *)
(* Byte strings (the bytes absorbed by the Keccak context, message bodies) *)
(* are kept run-length encoded: a sequence of runs [b |-> byte, n |-> k],  *)
(* k >= 1, no two adjacent runs with the same byte.  This is a canonical   *)
(* representation of the byte string, so equality of representations is    *)
(* equality of byte strings, and lengths up to 2^32 stay cheap.            *)
(***************************************************************************)
EXTENDS Integers, Sequences, FiniteSets, TLC

VARIABLES signing, data_total, data_left, resp, privkey, keccak_ctx,
          out, ui, calls, op, arg, was_signing, acks, chunks

vars == <<signing, data_total, data_left, resp, privkey, keccak_ctx,
          out, ui, calls, op, arg, was_signing, acks, chunks>>

\* signing .. keccak_ctx: the statics of ethereum.c.
\* out, ui: what the last call sent (msg_write, fsm_sendFailure) and showed.
\* calls: what the last call did with the digest context and the key, in
\* order: sha3_256_Init, memcpy (of the key into privkey), keccak_Final,
\* ecdsa_sign_digest.
\* op, arg: the last call and its input; was_signing: signing at its entry.
\* acks: EthereumTxAck messages fed to the running session.
\* chunks: the payload chunks the caller has handed to the session the last
\* call worked on, in arrival order: data_initial_chunk of the descriptor
\* first, then the data_chunk of every EthereumTxAck fed while the session
\* was active; empty after a call that found no session or aborted it.

(* ------------------------------------------------------------------ *)
(* Machine arithmetic                                                  *)
(*                                                                     *)
(* A uint32_t value x is kept as its two's-complement int32_t image:   *)
(* x itself when x < 2^31, x - 2^32 otherwise (so -1 is 0xFFFFFFFF).   *)
(* The image of a uint32_t converted to int (the parameter of          *)
(* rlp_calculate_length) is the same number.  Sizes of buffers that    *)
(* exist in memory (pb_size_t) are small naturals, their own image.    *)
(* ------------------------------------------------------------------ *)

\* INT32_MAX; the image of 0x7FFFFFFF
IMax == 2147483647

\* the image of 0x80000000
IMin == (-IMax) - 1

\* uint8_t
U8(x) == x % 256

\* unsigned a < b, a <= b
ULt(a, b) == IF (a >= 0) = (b >= 0) THEN a < b ELSE a >= 0

ULe(a, b) == a = b \/ ULt(a, b)

\* a + b modulo 2^32
UAdd(a, b) ==
    IF b >= 0 /\ a > IMax - b THEN (a - IMax - 1) + (b - IMax - 1)
    ELSE IF b < 0 /\ a < IMin - b THEN (a + IMax + 1) + (b + IMax + 1)
    ELSE a + b

\* a - b modulo 2^32
USub(a, b) == UAdd(a, IF b = IMin THEN IMin ELSE -b)

\* 800 * x modulo 2^32, by 16-bit limbs
UMul800(x) ==
    LET lo == x % 65536
        hi == (x \div 65536) % 65536
        p == lo * 800
        rlo == p % 65536
        rhi == (hi * 800 + (p \div 65536)) % 65536
    IN ((IF rhi >= 32768 THEN rhi - 65536 ELSE rhi) * 65536) + rlo

\* unsigned n / d, d not 0
UDiv(n, d) ==
    IF d < 0 THEN (IF ULt(n, d) THEN 0 ELSE 1)
    ELSE IF n >= 0 THEN n \div d
    ELSE LET bit == n % 2
             h == (((n - bit) \div 2) + IMax) + 1
             q1 == h \div d
             r1 == h % d
             t == IF r1 >= (d - bit) - r1 THEN 1 ELSE 0
         IN UAdd(UAdd(q1, q1), t)

(* ------------------------------------------------------------------ *)
(* Byte strings, run-length encoded                                    *)
(* ------------------------------------------------------------------ *)

Run(b, n) == IF n <= 0 THEN <<>> ELSE <<[b |-> b, n |-> n]>>

Cat(s, t) ==
    IF s = <<>> THEN t
    ELSE IF t = <<>> THEN s
    ELSE IF s[Len(s)].b = t[1].b
         THEN SubSeq(s, 1, Len(s) - 1)
              \o <<[b |-> t[1].b, n |-> s[Len(s)].n + t[1].n]>>
              \o Tail(t)
         ELSE s \o t

RECURSIVE BLen(_)
BLen(s) == IF s = <<>> THEN 0 ELSE s[1].n + BLen(Tail(s))

\* the i-th byte (1-based) of a byte string; -1 past its end
RECURSIVE ByteAt(_, _)
ByteAt(s, i) ==
    IF s = <<>> THEN -1
    ELSE IF i <= s[1].n THEN s[1].b
    ELSE ByteAt(Tail(s), i - s[1].n)

\* A C byte buffer (pb bytes array) whose bytes[0] is `first` and whose
\* other bytes are `fill`; Take is its first `size` bytes.
Take(buf, size) == Cat(Run(buf.first, IF size >= 1 THEN 1 ELSE 0), Run(buf.fill, size - 1))

(* ------------------------------------------------------------------ *)
(* Keccak context and RLP helpers                                      *)
(* ------------------------------------------------------------------ *)

\* sha3_256_Init: an empty, not yet finalized context
sha3_256_Init == [data |-> <<>>, finalized |-> FALSE]

\* hash_data: sha3_Update(&keccak_ctx, buf, size); `bytes` is buf[0..size-1]
hash_data(ctx, bytes) == [ctx EXCEPT !.data = Cat(@, bytes)]

\* hash_rlp_length with its first branch chain misplaced at 56 (mutant)
hash_rlp_length_off_by_one(ctx, length, firstbyte) ==
    IF length = 1 /\ firstbyte = 0 THEN hash_data(ctx, Run(128, 1))
    ELSE IF length = 1 /\ firstbyte <= 127 THEN hash_data(ctx, Run(firstbyte, 1))
    ELSE IF ULe(length, 56) THEN hash_data(ctx, Run(U8(128 + length), 1))
    ELSE IF ULe(length, 255) THEN
        hash_data(hash_data(ctx, Run(184, 1)), Run(U8(length), 1))
    ELSE IF ULe(length, 65535) THEN
        hash_data(hash_data(hash_data(ctx, Run(185, 1)),
                  Run(U8(length \div 256), 1)), Run(length % 256, 1))
    ELSE
        hash_data(hash_data(hash_data(hash_data(ctx, Run(186, 1)),
                  Run(U8(length \div 65536), 1)),
                  Run(U8(length \div 256), 1)), Run(length % 256, 1))

\* hash_rlp_length: push an RLP string header for `length` to the hash
hash_rlp_length(ctx, length, firstbyte) ==
    IF length = 1 /\ firstbyte = 0 THEN hash_data(ctx, Run(128, 1))
    ELSE IF length = 1 /\ firstbyte <= 127 THEN hash_data(ctx, Run(firstbyte, 1))
    ELSE IF ULe(length, 55) THEN hash_data(ctx, Run(U8(128 + length), 1))
    ELSE IF ULe(length, 255) THEN
        hash_data(hash_data(ctx, Run(184, 1)), Run(U8(length), 1))
    ELSE IF ULe(length, 65535) THEN
        hash_data(hash_data(hash_data(ctx, Run(185, 1)),
                  Run(U8(length \div 256), 1)), Run(length % 256, 1))
    ELSE
        hash_data(hash_data(hash_data(hash_data(ctx, Run(186, 1)),
                  Run(U8(length \div 65536), 1)),
                  Run(U8(length \div 256), 1)), Run(length % 256, 1))

\* hash_rlp_list_length: push an RLP list header for `length` to the hash
hash_rlp_list_length(ctx, length) ==
    IF ULe(length, 55) THEN hash_data(ctx, Run(U8(192 + length), 1))
    ELSE IF ULe(length, 255) THEN
        hash_data(hash_data(ctx, Run(248, 1)), Run(U8(length), 1))
    ELSE IF ULe(length, 65535) THEN
        hash_data(hash_data(hash_data(ctx, Run(249, 1)),
                  Run(U8(length \div 256), 1)), Run(length % 256, 1))
    ELSE
        hash_data(hash_data(hash_data(hash_data(ctx, Run(250, 1)),
                  Run(U8(length \div 65536), 1)),
                  Run(U8(length \div 256), 1)), Run(length % 256, 1))

\* hash_rlp_field: header, then the body unless the byte stands for itself
hash_rlp_field(ctx, buf, size) ==
    LET h == hash_rlp_length(ctx, size, buf.first) IN
    IF size > 1 \/ buf.first >= 128 THEN hash_data(h, Take(buf, size)) ELSE h

\* rlp_calculate_length(int length, uint8_t firstbyte): header plus body
rlp_calculate_length(length, firstbyte) ==
    IF length = 1 /\ firstbyte <= 127 THEN 1
    ELSE IF length <= 55 THEN 1 + length
    ELSE IF length <= 255 THEN 2 + length
    ELSE IF length <= 65535 THEN 3 + length
    ELSE 4 + length

(* ------------------------------------------------------------------ *)
(* Static data of ethereum.c and the values it holds                   *)
(* ------------------------------------------------------------------ *)

\* sizeof(privkey)
KeyLen == 32

ZeroKey == [i \in 1..KeyLen |-> 0]

\* hash[32]: the Keccak digest, kept as the byte string it is the digest of
ZeroHash == [set |-> FALSE, of |-> <<>>]

Digest(bytes) == [set |-> TRUE, of |-> bytes]

\* sig[64]: r and s as produced by ecdsa_sign_digest for (key, digest)
ZeroSig == [set |-> FALSE, key |-> ZeroKey, digest |-> ZeroHash]

Signature(key, digest) == [set |-> TRUE, key |-> key, digest |-> digest]

NoBytes == [size |-> 0, part |-> "none", sig |-> ZeroSig]

\* memset(&resp, 0, sizeof(EthereumTxRequest))
ZeroResp ==
    [has_data_length |-> FALSE, data_length |-> 0,
     has_signature_v |-> FALSE, signature_v |-> 0,
     has_signature_r |-> FALSE, signature_r |-> NoBytes,
     has_signature_s |-> FALSE, signature_s |-> NoBytes]

\* the statics of the translation unit plus what the running call has sent
\* (out: msg_write / fsm_sendFailure, ui: layout and button calls).  hash[]
\* and sig[] are written and read inside send_signature only (scratch), so
\* they are values of that operator, not state.
Cur ==
    [signing |-> signing, data_total |-> data_total, data_left |-> data_left,
     resp |-> resp, privkey |-> privkey, keccak_ctx |-> keccak_ctx,
     out |-> out, ui |-> ui, calls |-> calls]

\* a call starts with nothing sent yet
Enter(S) == [S EXCEPT !.out = <<>>, !.ui = <<>>, !.calls = <<>>]

fsm_sendFailure(S, code, text) ==
    [S EXCEPT !.out = Append(@, [type |-> "Failure", code |-> code, text |-> text,
                                 resp |-> ZeroResp])]

msg_write(S) ==
    [S EXCEPT !.out = Append(@, [type |-> "EthereumTxRequest", code |-> "",
                                 text |-> "", resp |-> S.resp])]

layout(S, call, val) == [S EXCEPT !.ui = Append(@, [call |-> call, val |-> val])]

\* the call of fn is noted; val is what it gave back (the recovery id
\* ecdsa_sign_digest stores on success, -1 when it fails, 0 otherwise)
called(S, fn, val) == [S EXCEPT !.calls = Append(@, [fn |-> fn, val |-> val])]

(* ------------------------------------------------------------------ *)
(* The operations                                                      *)
(* ------------------------------------------------------------------ *)

\* ethereum_signing_abort that forgets to wipe the key (mutant)
ethereum_signing_abort_no_wipe(S) ==
    IF S.signing THEN [layout(S, "layoutHome", 0) EXCEPT !.signing = FALSE] ELSE S

\* ethereum_signing_abort that returns to the home screen unconditionally (mutant)
ethereum_signing_abort_always(S) ==
    [layout(S, "layoutHome", 0) EXCEPT !.privkey = ZeroKey, !.signing = FALSE]

\* ethereum_signing_abort that also clears the payload accounting (mutant)
ethereum_signing_abort_reset(S) ==
    IF S.signing
    THEN [layout(S, "layoutHome", 0) EXCEPT !.privkey = ZeroKey, !.signing = FALSE,
                                            !.data_total = 0, !.data_left = 0]
    ELSE S

ethereum_signing_abort(S) ==
    IF S.signing
    THEN [layout(S, "layoutHome", 0) EXCEPT !.privkey = ZeroKey, !.signing = FALSE]
    ELSE S

\* the progress value 1000 - 800 * data_left / data_total in uint32_t;
\* a zero data_total is a division by zero, recorded as such
send_request_chunk(S) ==
    LET P == IF S.data_total = 0
             THEN layout(S, "division_by_zero", 0)
             ELSE layout(S, "layoutProgress",
                         USub(1000, UDiv(UMul800(S.data_left), S.data_total)))
        R == [P EXCEPT !.resp.has_data_length = TRUE,
                       !.resp.data_length =
                           IF ULe(S.data_left, 1024) THEN S.data_left ELSE 1024]
    IN msg_write(R)

\* what send_signature does with a signature G before it sends it: wipe
\* the key, fill in resp (v: the value of signature_v)
signature_response(S, G, v) ==
    [S EXCEPT !.privkey = ZeroKey,
              !.resp.has_data_length = FALSE,
              !.resp.has_signature_v = TRUE,
              !.resp.signature_v = v,
              !.resp.has_signature_r = TRUE,
              !.resp.signature_r = [size |-> 32, part |-> "r", sig |-> G.sig],
              !.resp.has_signature_s = TRUE,
              !.resp.signature_s = [size |-> 32, part |-> "s", sig |-> G.sig]]

\* send_signature that sends the recovery id as signature_v (mutant)
send_signature_raw_v(S, sign_ok, v) ==
    LET P == layout(S, "layoutProgress", 1000)
        F == called(called([P EXCEPT !.keccak_ctx.finalized = TRUE], "keccak_Final", 0),
                    "ecdsa_sign_digest", IF sign_ok THEN v ELSE -1)
        G == [sig |-> Signature(F.privkey, Digest(P.keccak_ctx.data))]
    IN IF ~sign_ok
       THEN ethereum_signing_abort(fsm_sendFailure(F, "Failure_Other", "Signing failed"))
       ELSE ethereum_signing_abort(msg_write(signature_response(F, G, v)))

\* send_signature without the final ethereum_signing_abort (mutant)
send_signature_stay_active(S, sign_ok, v) ==
    LET P == layout(S, "layoutProgress", 1000)
        F == called(called([P EXCEPT !.keccak_ctx.finalized = TRUE], "keccak_Final", 0),
                    "ecdsa_sign_digest", IF sign_ok THEN v ELSE -1)
        G == [sig |-> Signature(F.privkey, Digest(P.keccak_ctx.data))]
    IN IF ~sign_ok
       THEN ethereum_signing_abort(fsm_sendFailure(F, "Failure_Other", "Signing failed"))
       ELSE msg_write(signature_response(F, G, v + 27))

\* send_signature without the return after the signing failure (mutant)
send_signature_no_return(S, sign_ok, v) ==
    LET P == layout(S, "layoutProgress", 1000)
        F == called(called([P EXCEPT !.keccak_ctx.finalized = TRUE], "keccak_Final", 0),
                    "ecdsa_sign_digest", IF sign_ok THEN v ELSE -1)
        G == [sig |-> Signature(F.privkey, Digest(P.keccak_ctx.data))]
        E == IF ~sign_ok
             THEN ethereum_signing_abort(fsm_sendFailure(F, "Failure_Other", "Signing failed"))
             ELSE F
    IN ethereum_signing_abort(msg_write(signature_response(E, G, v + 27)))

\* sign_ok, v: the outcome of ecdsa_sign_digest (0 on success, recovery id)
send_signature(S, sign_ok, v) ==
    LET P == layout(S, "layoutProgress", 1000)
        F == called(called([P EXCEPT !.keccak_ctx.finalized = TRUE], "keccak_Final", 0),
                    "ecdsa_sign_digest", IF sign_ok THEN v ELSE -1)
        G == [sig |-> Signature(F.privkey, Digest(P.keccak_ctx.data))]
    IN IF ~sign_ok
       THEN ethereum_signing_abort(fsm_sendFailure(F, "Failure_Other", "Signing failed"))
       ELSE ethereum_signing_abort(msg_write(signature_response(F, G, v + 27)))

\* one of the five byte-string fields of EthereumSignTx in the counting pass
field_length(f) == IF f.has THEN rlp_calculate_length(f.size, f.first) ELSE 1

\* one of the five byte-string fields of EthereumSignTx in the emission pass
hash_field(ctx, f) ==
    IF f.has THEN hash_rlp_field(ctx, f, f.size) ELSE hash_rlp_length(ctx, 1, 0)

\* Stage 1 of ethereum_signing_init: the uint32_t rlp_length
rlp_total_length(msg) ==
    LET l1 == UAdd(0, field_length(msg.nonce))
        l2 == UAdd(l1, field_length(msg.gas_price))
        l3 == UAdd(l2, field_length(msg.gas_limit))
        l4 == UAdd(l3, field_length(msg.to))
        l5 == UAdd(l4, field_length(msg.value))
    IN UAdd(l5, IF msg.has_data_length /\ msg.has_data_initial_chunk
                THEN rlp_calculate_length(msg.data_length,
                                          msg.data_initial_chunk.first)
                ELSE 1)

\* Stage 2 of ethereum_signing_init after the list header: five fields, payload
hash_fields(ctx, msg) ==
    LET c1 == hash_field(ctx, msg.nonce)
        c2 == hash_field(c1, msg.gas_price)
        c3 == hash_field(c2, msg.gas_limit)
        c4 == hash_field(c3, msg.to)
        c5 == hash_field(c4, msg.value)
    IN IF msg.has_data_length /\ msg.has_data_initial_chunk
       THEN hash_data(hash_rlp_length(c5, msg.data_length, msg.data_initial_chunk.first),
                      Take(msg.data_initial_chunk, msg.data_initial_chunk.size))
       ELSE hash_rlp_length(c5, 1, 0)

\* the first statements of ethereum_signing_init without sha3_256_Init (mutant)
signing_start_no_reinit(S) == [S EXCEPT !.signing = TRUE, !.resp = ZeroResp]

\* the first statements of ethereum_signing_init: unconditional (re)start
signing_start(S) ==
    called([S EXCEPT !.signing = TRUE, !.keccak_ctx = sha3_256_Init, !.resp = ZeroResp],
           "sha3_256_Init", 0)

\* ethereum_signing_init that asks for confirmation before it validates the
\* descriptor (mutant)
ethereum_signing_init_confirm_first(S, msg, node, confirm, sign_ok, v) ==
    LET S0 == signing_start(S)
        S2 == layout(layout(S0, "layoutEthereumConfirmTx", 0), "protectButton", 0)
    IN
    IF ~confirm THEN
        ethereum_signing_abort(
            fsm_sendFailure(S2, "Failure_ActionCancelled", "Signing cancelled by user"))
    ELSE IF msg.has_data_length /\ msg.data_length = 0 THEN
        ethereum_signing_abort(
            fsm_sendFailure(S2, "Failure_Other", "Invalid data length provided"))
    ELSE IF msg.has_data_length
            /\ (~msg.has_data_initial_chunk \/ msg.data_initial_chunk.size = 0) THEN
        ethereum_signing_abort(
            fsm_sendFailure(S2, "Failure_Other",
                            "Data length provided, but no initial chunk"))
    ELSE IF msg.has_data_length
            /\ ULt(msg.data_length, msg.data_initial_chunk.size) THEN
        ethereum_signing_abort(
            fsm_sendFailure(S2, "Failure_Other", "Invalid size of initial chunk"))
    ELSE
    LET S3 == layout([S2 EXCEPT !.data_total =
                                   IF msg.has_data_length THEN msg.data_length ELSE 0],
                     "layoutProgress", 0)
        S4 == layout([S3 EXCEPT !.keccak_ctx =
                                   hash_rlp_list_length(@, rlp_total_length(msg))],
                     "layoutProgress", 100)
        S5 == layout([S4 EXCEPT !.keccak_ctx = hash_fields(@, msg)],
                     "layoutProgress", 200)
        S6 == called([S5 EXCEPT !.privkey = node], "memcpy", 0)
    IN
    IF msg.has_data_length /\ ULt(msg.data_initial_chunk.size, msg.data_length)
    THEN send_request_chunk(
            [S6 EXCEPT !.data_left = USub(msg.data_length, msg.data_initial_chunk.size)])
    ELSE send_signature(S6, sign_ok, v)

\* ethereum_signing_init that copies the key before it asks for the
\* confirmation (mutant)
ethereum_signing_init_key_first(S, msg, node, confirm, sign_ok, v) ==
    LET S0 == signing_start(S)
    IN
    IF msg.has_data_length /\ msg.data_length = 0 THEN
        ethereum_signing_abort(
            fsm_sendFailure(S0, "Failure_Other", "Invalid data length provided"))
    ELSE IF msg.has_data_length
            /\ (~msg.has_data_initial_chunk \/ msg.data_initial_chunk.size = 0) THEN
        ethereum_signing_abort(
            fsm_sendFailure(S0, "Failure_Other",
                            "Data length provided, but no initial chunk"))
    ELSE IF msg.has_data_length
            /\ ULt(msg.data_length, msg.data_initial_chunk.size) THEN
        ethereum_signing_abort(
            fsm_sendFailure(S0, "Failure_Other", "Invalid size of initial chunk"))
    ELSE
    LET S1 == called([S0 EXCEPT !.data_total =
                                   IF msg.has_data_length THEN msg.data_length ELSE 0,
                                !.privkey = node], "memcpy", 0)
        S2 == layout(layout(S1, "layoutEthereumConfirmTx", 0), "protectButton", 0)
    IN
    IF ~confirm THEN
        ethereum_signing_abort(
            fsm_sendFailure(S2, "Failure_ActionCancelled", "Signing cancelled by user"))
    ELSE
    LET S3 == layout(S2, "layoutProgress", 0)
        S4 == layout([S3 EXCEPT !.keccak_ctx =
                                   hash_rlp_list_length(@, rlp_total_length(msg))],
                     "layoutProgress", 100)
        S5 == layout([S4 EXCEPT !.keccak_ctx = hash_fields(@, msg)],
                     "layoutProgress", 200)
    IN
    IF msg.has_data_length /\ ULt(msg.data_initial_chunk.size, msg.data_length)
    THEN send_request_chunk(
            [S5 EXCEPT !.data_left = USub(msg.data_length, msg.data_initial_chunk.size)])
    ELSE send_signature(S5, sign_ok, v)

\* confirm: the answer of protectButton; sign_ok, v: see send_signature
ethereum_signing_init(S, msg, node, confirm, sign_ok, v) ==
    LET S0 == signing_start(S)
    IN
    IF msg.has_data_length /\ msg.data_length = 0 THEN
        ethereum_signing_abort(
            fsm_sendFailure(S0, "Failure_Other", "Invalid data length provided"))
    ELSE IF msg.has_data_length
            /\ (~msg.has_data_initial_chunk \/ msg.data_initial_chunk.size = 0) THEN
        ethereum_signing_abort(
            fsm_sendFailure(S0, "Failure_Other",
                            "Data length provided, but no initial chunk"))
    ELSE IF msg.has_data_length
            /\ ULt(msg.data_length, msg.data_initial_chunk.size) THEN
        ethereum_signing_abort(
            fsm_sendFailure(S0, "Failure_Other", "Invalid size of initial chunk"))
    ELSE
    LET S1 == [S0 EXCEPT !.data_total =
                            IF msg.has_data_length THEN msg.data_length ELSE 0]
        S2 == layout(layout(S1, "layoutEthereumConfirmTx", 0), "protectButton", 0)
    IN
    IF ~confirm THEN
        ethereum_signing_abort(
            fsm_sendFailure(S2, "Failure_ActionCancelled", "Signing cancelled by user"))
    ELSE
    LET S3 == layout(S2, "layoutProgress", 0)
        S4 == layout([S3 EXCEPT !.keccak_ctx =
                                   hash_rlp_list_length(@, rlp_total_length(msg))],
                     "layoutProgress", 100)
        S5 == layout([S4 EXCEPT !.keccak_ctx = hash_fields(@, msg)],
                     "layoutProgress", 200)
        S6 == called([S5 EXCEPT !.privkey = node], "memcpy", 0)
    IN
    IF msg.has_data_length /\ ULt(msg.data_initial_chunk.size, msg.data_length)
    THEN send_request_chunk(
            [S6 EXCEPT !.data_left = USub(msg.data_length, msg.data_initial_chunk.size)])
    ELSE send_signature(S6, sign_ok, v)

\* ethereum_signing_txack that reports the empty chunk and returns without
\* ethereum_signing_abort (mutant)
ethereum_signing_txack_no_abort(S, tx, sign_ok, v) ==
    IF ~S.signing THEN
        layout(fsm_sendFailure(S, "Failure_UnexpectedMessage", "Not in Signing mode"),
               "layoutHome", 0)
    ELSE IF S.data_left # 0 /\ (~tx.has_data_chunk \/ tx.data_chunk.size = 0) THEN
        fsm_sendFailure(S, "Failure_Other", "Empty data chunk received")
    ELSE
    LET S1 == [S EXCEPT !.keccak_ctx = hash_data(@, Take(tx.data_chunk, tx.data_chunk.size)),
                        !.data_left = USub(@, tx.data_chunk.size)]
    IN IF S1.data_left # 0 THEN send_request_chunk(S1)
       ELSE send_signature(S1, sign_ok, v)

\* ethereum_signing_txack that hashes the chunk but forgets data_left -= size
\* (mutant)
ethereum_signing_txack_no_progress(S, tx, sign_ok, v) ==
    IF ~S.signing THEN
        layout(fsm_sendFailure(S, "Failure_UnexpectedMessage", "Not in Signing mode"),
               "layoutHome", 0)
    ELSE IF S.data_left # 0 /\ (~tx.has_data_chunk \/ tx.data_chunk.size = 0) THEN
        ethereum_signing_abort(
            fsm_sendFailure(S, "Failure_Other", "Empty data chunk received"))
    ELSE
    LET S1 == [S EXCEPT !.keccak_ctx = hash_data(@, Take(tx.data_chunk, tx.data_chunk.size))]
    IN IF S1.data_left # 0 THEN send_request_chunk(S1)
       ELSE send_signature(S1, sign_ok, v)

\* ethereum_signing_txack that tests data_left >= 0, which an unsigned
\* value always is, and so requests a chunk every time (mutant)
ethereum_signing_txack_ge_zero(S, tx, sign_ok, v) ==
    IF ~S.signing THEN
        layout(fsm_sendFailure(S, "Failure_UnexpectedMessage", "Not in Signing mode"),
               "layoutHome", 0)
    ELSE IF S.data_left # 0 /\ (~tx.has_data_chunk \/ tx.data_chunk.size = 0) THEN
        ethereum_signing_abort(
            fsm_sendFailure(S, "Failure_Other", "Empty data chunk received"))
    ELSE
    LET S1 == [S EXCEPT !.keccak_ctx = hash_data(@, Take(tx.data_chunk, tx.data_chunk.size)),
                        !.data_left = USub(@, tx.data_chunk.size)]
    IN send_request_chunk(S1)

\* ethereum_signing_txack without the check of the signing flag (mutant)
ethereum_signing_txack_unguarded(S, tx, sign_ok, v) ==
    IF S.data_left # 0 /\ (~tx.has_data_chunk \/ tx.data_chunk.size = 0) THEN
        ethereum_signing_abort(
            fsm_sendFailure(S, "Failure_Other", "Empty data chunk received"))
    ELSE
    LET S1 == [S EXCEPT !.keccak_ctx = hash_data(@, Take(tx.data_chunk, tx.data_chunk.size)),
                        !.data_left = USub(@, tx.data_chunk.size)]
    IN IF S1.data_left # 0 THEN send_request_chunk(S1)
       ELSE send_signature(S1, sign_ok, v)

ethereum_signing_txack(S, tx, sign_ok, v) ==
    IF ~S.signing THEN
        layout(fsm_sendFailure(S, "Failure_UnexpectedMessage", "Not in Signing mode"),
               "layoutHome", 0)
    ELSE IF S.data_left # 0 /\ (~tx.has_data_chunk \/ tx.data_chunk.size = 0) THEN
        ethereum_signing_abort(
            fsm_sendFailure(S, "Failure_Other", "Empty data chunk received"))
    ELSE
    LET S1 == [S EXCEPT !.keccak_ctx = hash_data(@, Take(tx.data_chunk, tx.data_chunk.size)),
                        !.data_left = USub(@, tx.data_chunk.size)]
    IN IF S1.data_left # 0 THEN send_request_chunk(S1)
       ELSE send_signature(S1, sign_ok, v)

(* ------------------------------------------------------------------ *)
(* Inputs                                                              *)
(* ------------------------------------------------------------------ *)

\* at most this many EthereumTxAck messages are fed to one session
MaxAcks == 2

Bytes(has, size, first, fill) == [has |-> has, size |-> size, first |-> first, fill |-> fill]

Absent == Bytes(FALSE, 0, 0, 0)

\* the five byte-string fields (nonce, gas_price, gas_limit, to, value)
NoHeaders == <<Absent, Absent, Absent, Absent, Absent>>

MixedHeaders ==
    <<Bytes(TRUE, 1, 0, 0), Bytes(TRUE, 1, 127, 0), Bytes(TRUE, 1, 128, 0),
      Bytes(TRUE, 20, 222, 173), Bytes(TRUE, 0, 0, 0)>>

Headers ==
    { NoHeaders, MixedHeaders,
      <<Bytes(TRUE, 4, 1, 2), Absent, Absent, Bytes(TRUE, 0, 0, 0), Absent>>,
      <<Bytes(TRUE, 32, 255, 17), Bytes(TRUE, 2, 1, 0), Bytes(TRUE, 32, 0, 34),
        Bytes(TRUE, 20, 0, 51), Bytes(TRUE, 32, 13, 224)>> }

\* the payload part of EthereumSignTx:
\* <<has_data_length, data_length, has_data_initial_chunk, size, bytes[0]>>
\* (IMin + 5 is the image of 0x80000005)
NoPayload == <<FALSE, 0, FALSE, 0, 0>>

Payloads ==
    { NoPayload, <<FALSE, 0, TRUE, 3, 7>>,
      <<TRUE, 0, TRUE, 1, 7>>, <<TRUE, 5, FALSE, 0, 0>>, <<TRUE, 5, TRUE, 0, 0>>,
      <<TRUE, 1, TRUE, 2, 7>>,
      <<TRUE, 1, TRUE, 1, 0>>, <<TRUE, 1, TRUE, 1, 5>>, <<TRUE, 1, TRUE, 1, 128>>,
      <<TRUE, 2, TRUE, 1, 7>>, <<TRUE, 3, TRUE, 1, 0>>,
      <<TRUE, 2048, TRUE, 1024, 7>>,
      <<TRUE, 16777216, TRUE, 1024, 7>>, <<TRUE, IMin + 5, TRUE, 1, 7>> }

SignTx(h, p) ==
    [nonce |-> h[1], gas_price |-> h[2], gas_limit |-> h[3], to |-> h[4],
     value |-> h[5],
     has_data_length |-> p[1], data_length |-> p[2],
     has_data_initial_chunk |-> p[3],
     data_initial_chunk |-> [size |-> p[4], first |-> p[5], fill |-> 170]]

\* every payload without header fields, every header shape with two payloads
Messages ==
    { SignTx(NoHeaders, p) : p \in Payloads }
    \cup { SignTx(h, p) : h \in Headers, p \in {NoPayload, <<TRUE, 2, TRUE, 1, 7>>} }

\* node->private_key
NodeKeys == { [i \in 1..KeyLen |-> i] }

\* EthereumTxAck
TxAcks ==
    { [has_data_chunk |-> FALSE, data_chunk |-> [size |-> 0, first |-> 0, fill |-> 0]],
      [has_data_chunk |-> TRUE, data_chunk |-> [size |-> 0, first |-> 0, fill |-> 0]],
      [has_data_chunk |-> TRUE, data_chunk |-> [size |-> 1, first |-> 187, fill |-> 204]],
      [has_data_chunk |-> TRUE, data_chunk |-> [size |-> 1024, first |-> 187, fill |-> 204]] }

\* what the collaborators answer during a call: the button, ecdsa_sign_digest
Answers ==
    { [confirm |-> FALSE, sign_ok |-> FALSE, v |-> 0],
      [confirm |-> TRUE, sign_ok |-> FALSE, v |-> 0],
      [confirm |-> TRUE, sign_ok |-> TRUE, v |-> 0],
      [confirm |-> TRUE, sign_ok |-> TRUE, v |-> 1] }

(* ------------------------------------------------------------------ *)
(* The state machine                                                   *)
(* ------------------------------------------------------------------ *)

Set(S) ==
    /\ signing' = S.signing
    /\ data_total' = S.data_total
    /\ data_left' = S.data_left
    /\ resp' = S.resp
    /\ privkey' = S.privkey
    /\ keccak_ctx' = S.keccak_ctx
    /\ out' = S.out
    /\ ui' = S.ui
    /\ calls' = S.calls

Init ==
    /\ signing = FALSE
    /\ data_total = 0
    /\ data_left = 0
    /\ resp = ZeroResp
    /\ privkey = ZeroKey
    /\ keccak_ctx = sha3_256_Init
    /\ out = <<>>
    /\ ui = <<>>
    /\ calls = <<>>
    /\ op = "none"
    /\ arg = [none |-> TRUE]
    /\ was_signing = FALSE
    /\ acks = 0
    /\ chunks = <<>>

InitCall ==
    \E msg \in Messages, node \in NodeKeys, a \in Answers :
        /\ \E R \in {ethereum_signing_init(Enter(Cur), msg, node, a.confirm, a.sign_ok, a.v)} : Set(R)
        /\ op' = "init"
        /\ arg' = [msg |-> msg, node |-> node, confirm |-> a.confirm]
        /\ was_signing' = signing
        /\ acks' = 0
        /\ chunks' = << IF msg.has_data_initial_chunk
                        THEN Take(msg.data_initial_chunk, msg.data_initial_chunk.size)
                        ELSE <<>> >>

TxAckCall ==
    \E tx \in TxAcks, a \in Answers :
        /\ a.confirm
        /\ signing => acks < MaxAcks
        /\ \E R \in {ethereum_signing_txack(Enter(Cur), tx, a.sign_ok, a.v)} : Set(R)
        /\ op' = "txack"
        /\ arg' = [tx |-> tx]
        /\ was_signing' = signing
        /\ acks' = IF signing THEN acks + 1 ELSE acks
        /\ chunks' = IF signing
                      THEN Append(chunks, IF tx.has_data_chunk
                                          THEN Take(tx.data_chunk, tx.data_chunk.size)
                                          ELSE <<>>)
                      ELSE <<>>

AbortCall ==
    /\ \E R \in {ethereum_signing_abort(Enter(Cur))} : Set(R)
    /\ op' = "abort"
    /\ arg' = [none |-> TRUE]
    /\ was_signing' = signing
    /\ acks' = acks
    /\ chunks' = <<>>

Next == InitCall \/ TxAckCall \/ AbortCall

Spec == Init /\ [][Next]_vars

(* ------------------------------------------------------------------ *)
(* The RLP header functions on their own: one buffer in, its encoding  *)
(* out (arg is the buffer, keccak_ctx receives the bytes)              *)
(* ------------------------------------------------------------------ *)

RlpSizes == {1, 2, 55, 56, 255, 256, 65535, 65536, 16777215}

RlpFirstBytes == {0, 1, 127, 128, 255}

RlpInputs == { [size |-> n, first |-> b, fill |-> 170] : n \in RlpSizes, b \in RlpFirstBytes }

InitRlp ==
    /\ signing = FALSE
    /\ data_total = 0
    /\ data_left = 0
    /\ resp = ZeroResp
    /\ privkey = ZeroKey
    /\ keccak_ctx = sha3_256_Init
    /\ out = <<>>
    /\ ui = <<>>
    /\ calls = <<>>
    /\ op = "none"
    /\ arg \in RlpInputs
    /\ was_signing = FALSE
    /\ acks = 0
    /\ chunks = <<>>

RlpField ==
    /\ op = "none"
    /\ op' = "hash_rlp_field"
    /\ keccak_ctx' = hash_rlp_field(keccak_ctx, arg, arg.size)
    /\ UNCHANGED <<signing, data_total, data_left, resp, privkey, out, ui, calls, arg,
                   was_signing, acks, chunks>>

RlpListLength ==
    /\ op = "none"
    /\ op' = "hash_rlp_list_length"
    /\ keccak_ctx' = hash_rlp_list_length(keccak_ctx, arg.size)
    /\ UNCHANGED <<signing, data_total, data_left, resp, privkey, out, ui, calls, arg,
                   was_signing, acks, chunks>>

NextRlp == RlpField \/ RlpListLength

SpecRlp == InitRlp /\ [][NextRlp]_vars

(* ------------------------------------------------------------------ *)
(* Vocabulary of the properties                                         *)
(* ------------------------------------------------------------------ *)

\* the statics that make up the session
session == <<signing, data_total, data_left, resp, privkey, keccak_ctx>>

IsFailure(m) == m.type = "Failure"

IsChunkRequest(m) == m.type = "EthereumTxRequest" /\ m.resp.has_data_length

IsSignature(m) == m.type = "EthereumTxRequest" /\ m.resp.has_signature_v

\* the last call was an init whose descriptor passed validation
Validated == op = "init" /\ ui # <<>> /\ ui[1].call = "layoutEthereumConfirmTx"

\* the last call reported a failure
Failed == \E i \in 1..Len(out) : IsFailure(out[i])

\* a byte string given byte by byte
RECURSIVE FromBytes(_)
FromBytes(bs) == IF bs = <<>> THEN <<>> ELSE Cat(Run(bs[1], 1), FromBytes(Tail(bs)))

\* the content length a list header at the start of `data` declares, and
\* the number of bytes of that header
ListHeader(data) ==
    LET b == ByteAt(data, 1) IN
    IF b >= 192 /\ b <= 247 THEN [len |-> b - 192, hdr |-> 1]
    ELSE IF b = 248 THEN [len |-> ByteAt(data, 2), hdr |-> 2]
    ELSE IF b = 249 THEN [len |-> ByteAt(data, 2) * 256 + ByteAt(data, 3), hdr |-> 3]
    ELSE IF b = 250 THEN [len |-> ByteAt(data, 2) * 65536 + ByteAt(data, 3) * 256
                                  + ByteAt(data, 4), hdr |-> 4]
    ELSE [len |-> -1, hdr |-> 0]

\* the payload bytes still to come after init has consumed the initial chunk
RemainingAfterInit(msg) ==
    IF msg.has_data_length THEN USub(msg.data_length, msg.data_initial_chunk.size) ELSE 0

\* what init hashes for a descriptor, starting from a fresh context
FreshDigest(msg) ==
    hash_fields(hash_rlp_list_length(sha3_256_Init, rlp_total_length(msg)), msg).data

(* ------------------------------------------------------------------ *)
(* C1                                                                   *)
(* ------------------------------------------------------------------ *)

\* C1: whenever a call has returned and the session is not active
\* (signing = FALSE), every one of the 32 bytes of privkey is zero.
C1_KeyZeroWhenIdle == ~signing => \A i \in 1..KeyLen : privkey[i] = 0

\* a session that had loaded the key has ended in a signing failure
C1_Witness ==
    /\ ~signing
    /\ op \in {"init", "txack"}
    /\ Len(out) = 1 /\ out[1].text = "Signing failed"
    /\ privkey = ZeroKey

(* ------------------------------------------------------------------ *)
(* C2                                                                   *)
(* ------------------------------------------------------------------ *)

\* C2: a chunk larger than data_left, fed to an active session, is answered
\* with a failure, the session is aborted (idle, key zero), the digest is
\* not finalized and neither a chunk request nor a signature is sent.
C2_OverrunAborts ==
    [][(signing /\ op' = "txack" /\ ULt(data_left, arg'.tx.data_chunk.size))
       => /\ Len(out') = 1 /\ IsFailure(out'[1])
          /\ ~signing'
          /\ privkey' = ZeroKey
          /\ ~keccak_ctx'.finalized]_vars

(* ------------------------------------------------------------------ *)
(* C3                                                                   *)
(* ------------------------------------------------------------------ *)

\* C3 as stated: an init arriving while a session is active is answered
\* with a failure and leaves digest, accounting, key and flag as they were.
C3_SecondInitRejected ==
    [][(signing /\ op' = "init")
       => /\ Len(out') = 1 /\ IsFailure(out'[1])
          /\ UNCHANGED <<signing, data_total, data_left, privkey, keccak_ctx>>]_vars

\* C3 as amended: an init arriving while a session is active is not
\* rejected, it restarts the session: nothing of the old digest survives
\* (the context holds nothing, or exactly the encoding of the new
\* descriptor), a descriptor that passes validation overwrites data_total,
\* and when the new session awaits a chunk it holds the new key, the new
\* remaining length and has sent one chunk request.
C3_SecondInitRestarts ==
    [][(signing /\ op' = "init")
       => /\ keccak_ctx'.data \in {<<>>, FreshDigest(arg'.msg)}
          /\ (Validated'
                => data_total' = IF arg'.msg.has_data_length
                                 THEN arg'.msg.data_length ELSE 0)
          /\ (signing'
                => /\ privkey' = arg'.node
                   /\ data_left' = RemainingAfterInit(arg'.msg)
                   /\ Len(out') = 1 /\ IsChunkRequest(out'[1]))
          /\ (~signing' => privkey' = ZeroKey)]_vars

\* a second init, called on an active session, has started a new session
\* that now awaits a chunk
C3_Witness ==
    /\ op = "init" /\ was_signing /\ signing
    /\ keccak_ctx.data = FreshDigest(arg.msg)

(* ------------------------------------------------------------------ *)
(* C4                                                                   *)
(* ------------------------------------------------------------------ *)

\* C4: after an init that hashed a descriptor, the content length declared
\* by the list header at the start of the digest input equals the number of
\* bytes hashed after that header plus the payload bytes still to come
\* (stated for declared payload lengths up to 0xFFFFFF, the lengths a
\* header can carry; longer ones are the subject of C9).
C4_ListLengthMatches ==
    (op = "init" /\ keccak_ctx.data # <<>>
       /\ ULe(arg.msg.data_length, 16777215))
    => LET h == ListHeader(keccak_ctx.data) IN
       h.len = UAdd(BLen(keccak_ctx.data) - h.hdr, RemainingAfterInit(arg.msg))

(* ------------------------------------------------------------------ *)
(* C5                                                                   *)
(* ------------------------------------------------------------------ *)

\* C5: every txack that is accepted (reports no failure) leaves data_left
\* strictly smaller than before, never takes more than data_left held, and
\* a txack that sends a signature leaves data_left = 0.
C5_RemainingDecreases ==
    [][(signing /\ op' = "txack" /\ ~Failed')
       => /\ ULt(data_left', data_left)
          /\ ULe(arg'.tx.data_chunk.size, data_left)
          /\ (IsSignature(out'[1]) => data_left' = 0)]_vars

(* ------------------------------------------------------------------ *)
(* C6                                                                   *)
(* ------------------------------------------------------------------ *)

\* C6: a txack arriving while the session is not active sends exactly one
\* message, the failure UnexpectedMessage "Not in Signing mode", and leaves
\* signing, data_total, data_left, resp, privkey and the digest context
\* unchanged.
C6_TxAckWhenIdle ==
    [][(~signing /\ op' = "txack")
       => /\ Len(out') = 1
          /\ IsFailure(out'[1])
          /\ out'[1].code = "Failure_UnexpectedMessage"
          /\ out'[1].text = "Not in Signing mode"
          /\ UNCHANGED session]_vars

\* a txack has been refused on a session that had finished with a signature
C6_Witness ==
    /\ op = "txack" /\ ~was_signing
    /\ Len(out) = 1 /\ out[1].text = "Not in Signing mode"
    /\ keccak_ctx.finalized /\ resp.has_signature_v

(* ------------------------------------------------------------------ *)
(* C7                                                                   *)
(* ------------------------------------------------------------------ *)

\* C7 as stated: abort on an active session leaves data_total = 0 and
\* data_left = 0, the key zero and the session idle.
C7_AbortResetsAccounting ==
    [][(signing /\ op' = "abort")
       => /\ data_total' = 0 /\ data_left' = 0
          /\ privkey' = ZeroKey /\ ~signing']_vars

\* C7 as amended: abort on an active session leaves the key zero and the
\* session idle and does not touch the accounting (data_total and data_left
\* keep their values); it is the next init that overwrites data_total, once
\* its descriptor passes validation, and data_left, when it requests a chunk.
C7_AbortKeepsAccounting ==
    [][/\ (signing /\ op' = "abort")
            => /\ privkey' = ZeroKey /\ ~signing'
               /\ data_total' = data_total /\ data_left' = data_left
       /\ Validated'
            => data_total' = IF arg'.msg.has_data_length
                             THEN arg'.msg.data_length ELSE 0
       /\ (op' = "init" /\ signing')
            => data_left' = RemainingAfterInit(arg'.msg)]_vars

\* an active session has been aborted and its accounting is still there
C7_Witness ==
    /\ op = "abort" /\ was_signing /\ ~signing
    /\ data_total # 0 /\ data_left # 0
    /\ privkey = ZeroKey

(* ------------------------------------------------------------------ *)
(* C8                                                                   *)
(* ------------------------------------------------------------------ *)

\* C8: abort always leaves the session idle; called on an idle session it
\* changes no session field, shows nothing (no layoutHome) and sends
\* nothing, so a second abort in a row leaves what the first one left.
C8_AbortIdempotent ==
    [][op' = "abort"
       => /\ ~signing'
          /\ (~signing => /\ UNCHANGED session
                          /\ ui' = <<>>
                          /\ out' = <<>>)]_vars

\* abort has been called on a session that an earlier abort had ended
C8_Witness ==
    /\ op = "abort" /\ ~was_signing /\ ~signing
    /\ ui = <<>> /\ out = <<>>
    /\ data_left # 0

(* ------------------------------------------------------------------ *)
(* C9                                                                   *)
(* ------------------------------------------------------------------ *)

\* C9: a descriptor declaring a payload longer than 0xFFFFFF bytes is
\* refused: init reports a failure and hashes no list or payload header
\* for it.
C9_CapacityLimit ==
    (op = "init" /\ arg.msg.has_data_length /\ ULt(16777215, arg.msg.data_length))
    => /\ keccak_ctx.data = <<>>
       /\ Failed

(* ------------------------------------------------------------------ *)
(* C10                                                                  *)
(* ------------------------------------------------------------------ *)

\* the encoding of a byte string of L bytes, first byte b
ExpectedField(buf) ==
    LET L == buf.size
        b == buf.first
        body == Take(buf, L)
    IN IF L = 1 /\ b = 0 THEN FromBytes(<<128>>)
       ELSE IF L = 1 /\ b <= 127 THEN FromBytes(<<b>>)
       ELSE IF L = 1 THEN FromBytes(<<129, b>>)
       ELSE IF L <= 55 THEN Cat(FromBytes(<<128 + L>>), body)
       ELSE IF L <= 255 THEN Cat(FromBytes(<<184, L>>), body)
       ELSE IF L <= 65535 THEN Cat(FromBytes(<<185, L \div 256, L % 256>>), body)
       ELSE Cat(FromBytes(<<186, L \div 65536, (L \div 256) % 256, L % 256>>), body)

\* the header of a list of content length L
ExpectedList(L) ==
    IF L <= 55 THEN FromBytes(<<192 + L>>)
    ELSE IF L <= 255 THEN FromBytes(<<248, L>>)
    ELSE IF L <= 65535 THEN FromBytes(<<249, L \div 256, L % 256>>)
    ELSE FromBytes(<<250, L \div 65536, (L \div 256) % 256, L % 256>>)

\* C10: for 1 <= L <= 0xFFFFFF, hash_rlp_field hashes 0x80 for the single
\* byte 0x00, the byte itself for a single byte 0x01..0x7f, 0x81 and the
\* byte for a single byte >= 0x80, 0x80+L and the body for 2 <= L <= 55,
\* 0xb8 L, 0xb9 LL, 0xba LLL (big-endian) and the body above that;
\* hash_rlp_list_length hashes 0xc0+L, 0xf8 L, 0xf9 LL, 0xfa LLL.
C10_HeaderBytes ==
    /\ op = "hash_rlp_field" => keccak_ctx.data = ExpectedField(arg)
    /\ op = "hash_rlp_list_length" => keccak_ctx.data = ExpectedList(arg.size)

\* a three-byte-length field has been encoded
C10_Witness ==
    /\ op = "hash_rlp_field" /\ arg.size = 65536
    /\ ByteAt(keccak_ctx.data, 1) = 186
    /\ BLen(keccak_ctx.data) = 65540

(* ------------------------------------------------------------------ *)
(* C11                                                                  *)
(* ------------------------------------------------------------------ *)

\* the bytes of a sequence of chunks, in order
RECURSIVE Flatten(_)
Flatten(cs) == IF cs = <<>> THEN <<>> ELSE Cat(Head(cs), Flatten(Tail(cs)))

\* the number of payload bytes the session has been handed so far
Accepted == BLen(Flatten(chunks))

\* the declared total exceeds what the session has been handed
RemainingPositive == ULt(Accepted, data_total)

\* the declared total minus what the session has been handed
Remaining == USub(data_total, Accepted)

\* the last call was an init or a txack that took its input: the descriptor
\* passed validation and was confirmed, or the chunk was taken by an active
\* session
AcceptedCall ==
    \/ Validated /\ out[1].code # "Failure_ActionCancelled"
    \/ op = "txack" /\ was_signing /\ out[1].text # "Empty data chunk received"

\* C11: every chunk request carries data_length = min(remaining, 1024) >= 1,
\* where remaining is the declared total minus the payload bytes the session
\* has accepted; an accepted init or txack sends a chunk request if and only
\* if remaining > 0 after it and otherwise finalizes the digest; so no chunk
\* request is sent once remaining has reached 0.
C11_ChunkRequestIffRemaining ==
    /\ \A i \in 1..Len(out) :
          IsChunkRequest(out[i])
          => /\ RemainingPositive
             /\ out[i].resp.data_length = IF ULe(Remaining, 1024) THEN Remaining ELSE 1024
             /\ ULe(1, out[i].resp.data_length)
    /\ AcceptedCall
          => /\ IsChunkRequest(out[1]) <=> RemainingPositive
             /\ ~RemainingPositive => keccak_ctx.finalized

(* ------------------------------------------------------------------ *)
(* C12                                                                  *)
(* ------------------------------------------------------------------ *)

\* a declared payload length that is 0, or comes without a non-empty
\* initial chunk, or is smaller than the initial chunk
Rejected(msg) ==
    /\ msg.has_data_length
    /\ \/ msg.data_length = 0
       \/ ~msg.has_data_initial_chunk
       \/ msg.data_initial_chunk.size = 0
       \/ ULt(msg.data_length, msg.data_initial_chunk.size)

\* the failure text of each of the three conditions
RejectionText(msg) ==
    IF msg.data_length = 0 THEN "Invalid data length provided"
    ELSE IF ~msg.has_data_initial_chunk \/ msg.data_initial_chunk.size = 0
    THEN "Data length provided, but no initial chunk"
    ELSE "Invalid size of initial chunk"

\* C12: an init whose descriptor declares a payload length of 0, or
\* declares one without a non-empty initial chunk, or carries an initial
\* chunk larger than the declared length, reports one failure (its own
\* text for each condition); the confirmation is not asked for, nothing has
\* been appended to the digest, the key has not been copied and the session
\* is idle with a zero key.
C12_InitRejections ==
    (op = "init" /\ Rejected(arg.msg))
    => /\ Len(out) = 1 /\ IsFailure(out[1])
       /\ out[1].code = "Failure_Other"
       /\ out[1].text = RejectionText(arg.msg)
       /\ \A i \in 1..Len(ui) :
             ui[i].call \notin {"layoutEthereumConfirmTx", "protectButton"}
       /\ keccak_ctx.data = <<>> /\ ~keccak_ctx.finalized
       /\ Len(calls) = 1 /\ calls[1].fn = "sha3_256_Init"
       /\ privkey = ZeroKey
       /\ ~signing

\* an init declaring 5 payload bytes with an empty initial chunk has been
\* rejected while a session was active
C12_Witness ==
    /\ op = "init" /\ was_signing
    /\ arg.msg.has_data_length /\ arg.msg.data_length = 5
    /\ arg.msg.has_data_initial_chunk /\ arg.msg.data_initial_chunk.size = 0
    /\ Len(out) = 1 /\ out[1].text = "Data length provided, but no initial chunk"
    /\ ~signing

(* ------------------------------------------------------------------ *)
(* C13                                                                  *)
(* ------------------------------------------------------------------ *)

\* fn is among the calls the last call made
Called(fn) == \E i \in 1..Len(calls) : calls[i].fn = fn

\* C13: an init called on an idle session with a descriptor that passes
\* validation, to which the confirmation answers no, sends exactly one
\* message, the failure ActionCancelled (no chunk request, no signature);
\* nothing has been appended to the digest, the key has not been copied
\* into privkey (which is all zero), the digest has not been finalized,
\* ecdsa_sign_digest has not been called and the session is idle.
C13_DeclinedConfirmation ==
    (op = "init" /\ ~was_signing /\ ~Rejected(arg.msg) /\ ~arg.confirm)
    => /\ Len(out) = 1 /\ IsFailure(out[1])
       /\ out[1].code = "Failure_ActionCancelled"
       /\ keccak_ctx.data = <<>> /\ ~keccak_ctx.finalized
       /\ ~Called("memcpy") /\ ~Called("keccak_Final") /\ ~Called("ecdsa_sign_digest")
       /\ privkey = ZeroKey
       /\ ~signing

\* the confirmation of a descriptor with a declared payload has been
\* declined on an idle session
C13_Witness ==
    /\ op = "init" /\ ~was_signing /\ ~arg.confirm
    /\ arg.msg.has_data_length /\ arg.msg.data_length = 2048
    /\ Len(ui) >= 2 /\ ui[2].call = "protectButton"
    /\ Len(out) = 1 /\ out[1].text = "Signing cancelled by user"
    /\ ~signing

(* ------------------------------------------------------------------ *)
(* C14                                                                  *)
(* ------------------------------------------------------------------ *)

\* the last call reported a failure other than the one an inactive session
\* answers a txack with
SessionFailure ==
    /\ op \in {"init", "txack"}
    /\ \E i \in 1..Len(out) :
          IsFailure(out[i]) /\ out[i].code # "Failure_UnexpectedMessage"

\* C14: when init or txack reports a failure Other (invalid descriptor,
\* empty or missing chunk while data_left > 0, signing failed) or
\* ActionCancelled, the session has been aborted when the call returns
\* (signing = FALSE, privkey zero) and the call has sent nothing else; a
\* txack that follows gets the failure UnexpectedMessage and changes
\* nothing; a txack with an empty or missing chunk on an active session is
\* such a failure.
C14_FailureAborts ==
    [][/\ SessionFailure'
            => /\ ~signing' /\ privkey' = ZeroKey
               /\ \A i \in 1..Len(out') : ~IsSignature(out'[i])
               /\ Len(out') = 1
               /\ out'[1].code \in {"Failure_Other", "Failure_ActionCancelled"}
       /\ (SessionFailure /\ op' = "txack")
            => /\ Len(out') = 1 /\ out'[1].code = "Failure_UnexpectedMessage"
               /\ UNCHANGED session
       /\ (signing /\ op' = "txack"
             /\ (~arg'.tx.has_data_chunk \/ arg'.tx.data_chunk.size = 0))
            => /\ SessionFailure'
               /\ out'[1].text = "Empty data chunk received"]_vars

\* an active session has been aborted by a txack without a chunk
C14_Witness ==
    /\ op = "txack" /\ was_signing /\ ~signing
    /\ ~arg.tx.has_data_chunk
    /\ Len(out) = 1 /\ out[1].text = "Empty data chunk received"
    /\ privkey = ZeroKey /\ data_left # 0

(* ------------------------------------------------------------------ *)
(* C15                                                                  *)
(* ------------------------------------------------------------------ *)

\* the places of fn among the calls the last call made
CallsOf(fn) == { i \in 1..Len(calls) : calls[i].fn = fn }

\* C15: a call invokes ecdsa_sign_digest at most once, directly after
\* keccak_Final, on a session (a txack only on an active one) whose
\* declared payload has all been accepted, and the session is idle with a
\* zero key when the call returns, so a session signs at most once; when
\* the primitive succeeds with recovery id v the call sends exactly one
\* message, a signature with signature_v = v + 27, signature_r and
\* signature_s of 32 bytes made from the key the session was given and the
\* digest, and no data_length; no message carries a data_length together
\* with a signature field.
C15_SignOnce ==
    /\ Cardinality(CallsOf("ecdsa_sign_digest")) <= 1
    /\ \A i \in CallsOf("ecdsa_sign_digest") :
          /\ i > 1 /\ calls[i - 1].fn = "keccak_Final"
          /\ Cardinality(CallsOf("keccak_Final")) = 1
          /\ keccak_ctx.finalized
          /\ op = "txack" => was_signing
          /\ ~RemainingPositive
          /\ ~signing /\ privkey = ZeroKey
          /\ calls[i].val # -1
                => /\ Len(out) = 1 /\ IsSignature(out[1])
                   /\ out[1].resp.signature_v = calls[i].val + 27
                   /\ out[1].resp.has_signature_r /\ out[1].resp.signature_r.size = 32
                   /\ out[1].resp.has_signature_s /\ out[1].resp.signature_s.size = 32
                   /\ out[1].resp.signature_r.sig.digest = Digest(keccak_ctx.data)
                   /\ out[1].resp.signature_r.sig.key # ZeroKey
                   /\ ~out[1].resp.has_data_length
    /\ \A i \in 1..Len(out) :
          /\ IsSignature(out[i]) => Called("ecdsa_sign_digest")
          /\ ~(out[i].resp.has_data_length
               /\ (out[i].resp.has_signature_v \/ out[i].resp.has_signature_r
                   \/ out[i].resp.has_signature_s))

\* a session of 2048 declared bytes has been signed with recovery id 1
\* after its second chunk
C15_Witness ==
    /\ op = "txack" /\ was_signing /\ ~signing
    /\ data_total = 2048 /\ Accepted = 2048
    /\ Len(out) = 1 /\ IsSignature(out[1])
    /\ out[1].resp.signature_v = 28
    /\ privkey = ZeroKey

(* ------------------------------------------------------------------ *)
(* C16                                                                  *)
(* ------------------------------------------------------------------ *)

\* C16: sha3_256_Init is called once by every init, as its first step, and
\* by no other call; a call finalizes the digest at most once, and a
\* session whose digest is finalized is over (signing = FALSE); once the
\* digest is finalized no txack and no abort appends to it or finalizes
\* it again: the context stays as it is until the next init.
C16_DigestLifecycle ==
    [][/\ op' = "init"
            => /\ Cardinality(CallsOf("sha3_256_Init")') = 1
               /\ calls'[1].fn = "sha3_256_Init"
       /\ op' # "init" => ~Called("sha3_256_Init")'
       /\ Cardinality(CallsOf("keccak_Final")') <= 1
       /\ Called("keccak_Final")' => keccak_ctx'.finalized
       /\ (keccak_ctx'.finalized /\ (op' = "init" \/ ~keccak_ctx.finalized))
            => Called("keccak_Final")'
       /\ keccak_ctx'.finalized => ~signing'
       /\ (keccak_ctx.finalized /\ op' # "init")
            => /\ keccak_ctx' = keccak_ctx
               /\ ~Called("keccak_Final")']_vars

\* a chunk has been fed after the session had ended in a signing failure,
\* and the finalized digest is as it was
C16_Witness ==
    /\ op = "txack" /\ ~was_signing /\ ~signing
    /\ arg.tx.has_data_chunk /\ arg.tx.data_chunk.size = 1024
    /\ keccak_ctx.finalized /\ ~resp.has_signature_v
    /\ BLen(keccak_ctx.data) > 2048

(* ------------------------------------------------------------------ *)
(* C17                                                                  *)
(* ------------------------------------------------------------------ *)

\* the last n bytes of a byte string
RECURSIVE LastBytes(_, _)
LastBytes(buf, n) ==
    IF n <= 0 \/ buf = <<>> THEN <<>>
    ELSE LET r == buf[Len(buf)] IN
         IF r.n >= n THEN Run(r.b, n)
         ELSE Cat(LastBytes(SubSeq(buf, 1, Len(buf) - 1), n - r.n), Run(r.b, r.n))

\* the header of a byte string of L bytes, first byte b (0x80 alone stands
\* for the empty string; a single byte below 0x80 is headed as
\* hash_rlp_length heads it)
StringHeader(L, b) ==
    IF L = 0 THEN FromBytes(<<128>>)
    ELSE IF L = 1 /\ b = 0 THEN FromBytes(<<128>>)
    ELSE IF L = 1 /\ b <= 127 THEN FromBytes(<<b>>)
    ELSE IF L <= 55 THEN FromBytes(<<128 + L>>)
    ELSE IF L <= 255 THEN FromBytes(<<184, L>>)
    ELSE IF L <= 65535 THEN FromBytes(<<185, L \div 256, L % 256>>)
    ELSE FromBytes(<<186, L \div 65536, (L \div 256) % 256, L % 256>>)

\* the payload as the digest should end with it: the header for all the
\* bytes the caller supplied, then these bytes once, in arrival order
ExpectedPayload ==
    LET P == Flatten(chunks)
    IN Cat(StringHeader(BLen(P), IF P = <<>> THEN 0 ELSE ByteAt(P, 1)), P)

\* C17: when a call has sent a signature, the digest input ends with the
\* payload header followed by every payload byte the caller supplied to
\* the session (the initial chunk of the descriptor, then every chunk fed
\* by txack), each once and in arrival order, and the header encodes their
\* number; an initial chunk that came without a declared length is part
\* of it.
C17_PayloadHashedOnce ==
    (op \in {"init", "txack"} /\ Len(out) = 1 /\ IsSignature(out[1]))
    => LastBytes(keccak_ctx.data, BLen(ExpectedPayload)) = ExpectedPayload

(* ------------------------------------------------------------------ *)
(* C18: a caller that keeps the protocol                                *)
(*                                                                      *)
(* The caller starts sessions on the idle device only and answers every *)
(* chunk request with a chunk of 1 .. data_length bytes; it never calls *)
(* ethereum_signing_abort and never calls init on an active session.    *)
(* Weak fairness of LiveTxAck is this caller's promise to answer each   *)
(* chunk request: the firmware's message loop then runs                 *)
(* ethereum_signing_txack to completion (it has no loop and no wait).   *)
(* ------------------------------------------------------------------ *)

\* the largest declared payload length of a session that is run to its end
MaxLiveTotal == 2048

LiveMessages == { m \in Messages : ULe(m.data_length, MaxLiveTotal) }

LiveInit ==
    /\ ~signing
    /\ \E msg \in LiveMessages, node \in NodeKeys, a \in Answers :
        /\ \E R \in {ethereum_signing_init(Enter(Cur), msg, node, a.confirm, a.sign_ok, a.v)} : Set(R)
        /\ op' = "init"
        /\ arg' = [msg |-> msg, node |-> node, confirm |-> a.confirm]
        /\ was_signing' = signing
        /\ acks' = 0
        /\ chunks' = << IF msg.has_data_initial_chunk
                        THEN Take(msg.data_initial_chunk, msg.data_initial_chunk.size)
                        ELSE <<>> >>

LiveTxAck ==
    /\ signing
    /\ \E tx \in TxAcks, a \in Answers :
        /\ a.confirm
        /\ tx.has_data_chunk
        /\ 1 <= tx.data_chunk.size /\ ULe(tx.data_chunk.size, resp.data_length)
        /\ \E R \in {ethereum_signing_txack(Enter(Cur), tx, a.sign_ok, a.v)} : Set(R)
        /\ op' = "txack"
        /\ arg' = [tx |-> tx]
        /\ was_signing' = signing
        /\ acks' = acks + 1
        /\ chunks' = Append(chunks, Take(tx.data_chunk, tx.data_chunk.size))

NextLive == LiveInit \/ LiveTxAck

SpecLive == Init /\ [][NextLive]_vars /\ WF_vars(LiveTxAck)

\* the session has been finalized: ecdsa_sign_digest was called and the
\* call sent a signature or the failure "Signing failed", and the session
\* is idle
Completed ==
    /\ ~signing
    /\ Called("ecdsa_sign_digest")
    /\ Len(out) = 1
    /\ IsSignature(out[1]) \/ out[1].text = "Signing failed"

\* C18: with a caller that answers every chunk request with 1 ..
\* data_length bytes and calls neither abort nor init meanwhile, a session
\* that awaits a chunk eventually calls ecdsa_sign_digest, sends a
\* signature or the failure "Signing failed" and is idle; and it never
\* takes more txack calls than the declared total minus the size of the
\* initial chunk.
C18_SessionCompletes ==
    /\ signing ~> Completed
    /\ [](op = "txack" => acks <= USub(data_total, BLen(Head(chunks))))

\* a session of 2048 declared bytes, 1024 of them in the initial chunk, has
\* been completed by the last of 1024 chunks of one byte
C18_Witness ==
    /\ op = "txack" /\ Completed
    /\ data_total = 2048 /\ BLen(Head(chunks)) = 1024
    /\ acks = 1024

(* ------------------------------------------------------------------ *)
(* C19                                                                  *)
(* ------------------------------------------------------------------ *)

\* how many of failure, chunk request, signature the message m is
Kinds(m) ==
    (IF IsFailure(m) THEN 1 ELSE 0) + (IF IsChunkRequest(m) THEN 1 ELSE 0)
    + (IF IsSignature(m) THEN 1 ELSE 0)

\* C19: every init and every txack sends exactly one message, and that
\* message is exactly one of failure, chunk request and signature; abort
\* sends none.
C19_OneMessagePerCall ==
    /\ op \in {"init", "txack"} => Len(out) = 1 /\ Kinds(out[1]) = 1
    /\ op = "abort" => out = <<>>

\* an init without payload went all the way to ecdsa_sign_digest, which
\* failed, and has sent the failure alone
C19_Witness ==
    /\ op = "init" /\ ~arg.msg.has_data_length
    /\ Called("ecdsa_sign_digest") /\ calls[Len(calls)].val = -1
    /\ Len(out) = 1 /\ IsFailure(out[1])

(* ------------------------------------------------------------------ *)
(* C20                                                                  *)
(* ------------------------------------------------------------------ *)

\* C20: after every call, an active session (signing = TRUE) awaits a
\* chunk it has requested, with data_total >= 1 and data_left >= 1 (as
\* uint32_t); and no call has computed the progress value of
\* send_request_chunk with data_total = 0.
C20_ActiveHasRemaining ==
    /\ signing
          => /\ data_total # 0 /\ ULe(1, data_total)
             /\ data_left # 0 /\ ULe(1, data_left)
             /\ Len(out) = 1 /\ IsChunkRequest(out[1])
    /\ \A i \in 1..Len(ui) : ui[i].call # "division_by_zero"

\* a session of 2048 declared bytes awaits its second half and has shown
\* the progress 1000 - 800 * 1024 / 2048
C20_Witness ==
    /\ signing /\ op = "init"
    /\ data_total = 2048 /\ data_left = 1024
    /\ ui[Len(ui)] = [call |-> "layoutProgress", val |-> 600]

====
